---- MODULE Spec2Model ----
(***************************************************************************)
(* A model of react-native-neat-date-picker: the calendar grid hook        *)
(* (useDaysOfMonth), the fixed six-week layout (chunkIntoFixedWeeks) and   *)
(* the picker component (NeatDatePicker) with its handlers and timers.     *)
(*                                                                         *)
(* JavaScript values are boxed as records so that any two of them can be   *)
(* compared: a Date is [year, month, date] (local wall-clock fields, month *)
(* 0-based, always normalised), a number is [num |-> n], a string is       *)
(* [str |-> s], null and undefined are the records Null and Undefined. A   *)
(* property an object does not have is a field its record does not have.   *)
(* Instants (Date.getTime) are counted in whole days since 1970-01-01, the *)
(* local zone being UTC: instant 0 is midnight of 1 January 1970.          *)
(***************************************************************************)
EXTENDS Integers, Sequences, FiniteSets, TLC

VARIABLES
    props,          \* the caller's options: mode, initialDate, startDate, endDate, minDate, maxDate
    phase,          \* "constructed" (first render done, effects not yet run) or "mounted"
    displayTime,    \* useState: the date whose month is on screen
    output,         \* useState: the current selection
    originalOutput, \* useState: the baseline restored on cancel
    isNavigating,   \* useState: the navigation cooldown flag
    dateArray,      \* useDaysOfMonth's useState: the day cells on screen
    timers,         \* the pending setTimeout callbacks, oldest first (all have the same 300 ms delay)
    emitted,        \* the objects the last step passed to onConfirm, in order
    lastConfirmed,  \* the last object ever passed to onConfirm, Null when none yet
    navBase,        \* the month index on screen just before the last accepted navigation step
    navReq,         \* that step's direction while only prev/next requests have followed it, else "none"
    navIgnored,     \* TRUE when a request has been ignored since that step
    hist            \* "tap" / "cancel": the last step was that press; "tapDone" / "cancelDone": the
                    \* last step fired the timer of the press made just before it; "none" otherwise

vars == <<props, phase, displayTime, output, originalOutput, isNavigating,
          dateArray, timers, emitted, lastConfirmed, navBase, navReq, navIgnored, hist>>

-----------------------------------------------------------------------------
(* JavaScript values *)

Null == [null |-> TRUE]

Undefined == [undefined |-> TRUE]

Num(n) == [num |-> n]

Str(s) == [str |-> s]

\* JavaScript truthiness: null, undefined, 0 and "" are falsy, objects are truthy.
Truthy(v) == v \notin {Null, Undefined, Num(0), Str("")}

\* a || b
Or(a, b) == IF Truthy(a) THEN a ELSE b

\* a ?? b
Nullish(a, b) == IF a \in {Null, Undefined} THEN b ELSE a

\* { ...r, ...s }
Spread(r, s) == [k \in DOMAIN r \cup DOMAIN s |-> IF k \in DOMAIN s THEN s[k] ELSE r[k]]

\* o.k, undefined when o has no such property
Get(o, k) == IF k \in DOMAIN o THEN o[k] ELSE Undefined

-----------------------------------------------------------------------------
(* Date arithmetic (the built-in Date object, proleptic Gregorian calendar) *)

IsLeap(y) == (y % 4 = 0 /\ y % 100 # 0) \/ y % 400 = 0

\* number of days of month m (0..11) of year y
MonthLength(y, m) ==
    IF m = 1 THEN (IF IsLeap(y) THEN 29 ELSE 28)
    ELSE IF m \in {3, 5, 8, 10} THEN 30 ELSE 31

\* days of year y before its month m (0..11)
DaysBeforeMonth(y, m) ==
    <<0, 31, 59, 90, 120, 151, 181, 212, 243, 273, 304, 334>>[m + 1]
        + (IF m > 1 /\ IsLeap(y) THEN 1 ELSE 0)

\* leap years among the years 1 .. y-1
LeapsBefore(y) == ((y - 1) \div 4) - ((y - 1) \div 100) + ((y - 1) \div 400)

\* days from 1970-01-01 to 1 January of year y
DaysBeforeYear(y) == 365 * (y - 1970) + LeapsBefore(y) - LeapsBefore(1970)

\* Days from 1970-01-01 to the date (y, m, d); m and d may lie outside their
\* ranges and carry into the year and the month, as in new Date(y, m, d).
MakeDay(y, m, d) ==
    LET yy == y + (m \div 12)
        mm == m % 12
    IN  DaysBeforeYear(yy) + DaysBeforeMonth(yy, mm) + (d - 1)

YearFromDay(n) ==
    LET p == n \div 365
        q == n \div 366
        a == 1970 + (IF p <= q THEN p ELSE q) - 1
        b == 1970 + (IF p <= q THEN q ELSE p) + 1
    IN  CHOOSE y \in a..b : DaysBeforeYear(y) <= n /\ n < DaysBeforeYear(y + 1)

\* the Date whose instant is day n
DateFromDay(n) ==
    LET y == YearFromDay(n)
        r == n - DaysBeforeYear(y)
        m == CHOOSE k \in 0..11 : DaysBeforeMonth(y, k) <= r /\ r < DaysBeforeMonth(y, k) + MonthLength(y, k)
    IN  [year |-> y, month |-> m, date |-> r - DaysBeforeMonth(y, m) + 1]

\* new Date(y, m, d)
NewDate(y, m, d) == DateFromDay(MakeDay(y, m, d))

\* date.getTime(), in days
getTime(date) == MakeDay(date.year, date.month, date.date)

\* date.getDay(): 0 = Sunday; 1 January 1970 was a Thursday
getDay(date) == (getTime(date) + 4) % 7

getFullYear(date) == date.year

getMonth(date) == date.month

getDate(date) == date.date

IsDate(v) == DOMAIN v = {"year", "month", "date"}

\* the number of the month a date lies in, counted from year 0
MonthIndex(date) == date.year * 12 + date.month

-----------------------------------------------------------------------------
(* useDaysOfMonth: the calendar grid builder *)

\* minDate?.getTime()
OptTime(d) == IF d \in {Null, Undefined} THEN Undefined ELSE Num(getTime(d))

DayCell(y, m, d, cur) ==
    [year |-> y, month |-> m, date |-> d, isCurrentMonth |-> cur, disabled |-> FALSE]

\* InsertPrevMonth running for one week more than firstDay
RECURSIVE InsertPrevMonthExtraWeek(_, _, _, _, _)
InsertPrevMonthExtraWeek(arr, inputYear, inputMonth, daysShouldInsert, insertedNumber) ==
    IF daysShouldInsert > -7 /\ daysShouldInsert < 7
    THEN InsertPrevMonthExtraWeek(<<DayCell(inputYear, inputMonth - 1, insertedNumber, FALSE)>> \o arr,
                                  inputYear, inputMonth, daysShouldInsert - 1, insertedNumber - 1)
    ELSE arr

\* InsertPrevMonth without the decrement of insertedNumber
RECURSIVE InsertPrevMonthSameDate(_, _, _, _, _)
InsertPrevMonthSameDate(arr, inputYear, inputMonth, daysShouldInsert, insertedNumber) ==
    IF daysShouldInsert > 0 /\ daysShouldInsert < 7
    THEN InsertPrevMonthSameDate(<<DayCell(inputYear, inputMonth - 1, insertedNumber, FALSE)>> \o arr,
                                 inputYear, inputMonth, daysShouldInsert - 1, insertedNumber)
    ELSE arr

\* the loop that puts the last days of the previous month in front
RECURSIVE InsertPrevMonth(_, _, _, _, _)
InsertPrevMonth(arr, inputYear, inputMonth, daysShouldInsert, insertedNumber) ==
    IF daysShouldInsert > 0 /\ daysShouldInsert < 7
    THEN InsertPrevMonth(<<DayCell(inputYear, inputMonth - 1, insertedNumber, FALSE)>> \o arr,
                         inputYear, inputMonth, daysShouldInsert - 1, insertedNumber - 1)
    ELSE arr

\* FillNextMonth with the loop test i > blankInEnd
RECURSIVE FillNextMonthShort(_, _, _, _, _)
FillNextMonthShort(arr, inputYear, inputMonth, i, blankInEnd) ==
    IF i > blankInEnd
    THEN FillNextMonthShort(Append(arr, DayCell(inputYear, inputMonth + 1, i * (-1), FALSE)),
                            inputYear, inputMonth, i - 1, blankInEnd)
    ELSE arr

\* the loop that appends the first days of the next month
RECURSIVE FillNextMonth(_, _, _, _, _)
FillNextMonth(arr, inputYear, inputMonth, i, blankInEnd) ==
    IF i >= blankInEnd
    THEN FillNextMonth(Append(arr, DayCell(inputYear, inputMonth + 1, i * (-1), FALSE)),
                       inputYear, inputMonth, i - 1, blankInEnd)
    ELSE arr

checkShouldDisabled(day, minTime, maxTime) ==
    LET thisKeyTime == getTime(NewDate(day.year, day.month, day.date))
        byMax == Truthy(maxTime) /\ thisKeyTime > maxTime.num
        byMin == Truthy(minTime) /\ thisKeyTime < minTime.num
    IN  [day EXCEPT !.disabled = byMax \/ byMin]

\* createDateArray without the loop that appends the next month's days
createDateArrayNoFill(inputYear, inputMonth, minTime, maxTime) ==
    LET firstDay == getDay(NewDate(inputYear, inputMonth, 1))
        prevMonthDays == getDate(NewDate(inputYear, inputMonth, 0))
        days == getDate(NewDate(inputYear, inputMonth + 1, 0))
        cur == [i \in 1..days |-> DayCell(inputYear, inputMonth, i, TRUE)]
        arr == InsertPrevMonth(cur, inputYear, inputMonth, firstDay, prevMonthDays)
    IN  IF Truthy(minTime) \/ Truthy(maxTime)
        THEN [k \in 1..Len(arr) |-> checkShouldDisabled(arr[k], minTime, maxTime)]
        ELSE arr

createDateArray(inputYear, inputMonth, minTime, maxTime) ==
    LET days == getDate(NewDate(inputYear, inputMonth + 1, 0))
        firstDay == getDay(NewDate(inputYear, inputMonth, 1))
        prevMonthDays == getDate(NewDate(inputYear, inputMonth, 0))
        cur == [i \in 1..days |-> DayCell(inputYear, inputMonth, i, TRUE)]
        withPrev == InsertPrevMonth(cur, inputYear, inputMonth, firstDay, prevMonthDays)
        rem == Len(withPrev) % 7
        blankInEnd == IF rem # 0 THEN rem - 7 ELSE rem
        arr == FillNextMonth(withPrev, inputYear, inputMonth, -1, blankInEnd)
    IN  IF Truthy(minTime) \/ Truthy(maxTime)
        THEN [k \in 1..Len(arr) |-> checkShouldDisabled(arr[k], minTime, maxTime)]
        ELSE arr

\* Content: the six rows of seven slots, a slot past the end of the array being null
chunkIntoFixedWeeks(arr) ==
    [i \in 1..6 |-> [j \in 1..7 |->
        LET dayIndex == (i - 1) * 7 + j
        IN  IF dayIndex <= Len(arr) THEN arr[dayIndex] ELSE Null]]


-----------------------------------------------------------------------------
(* dateformat: format(date, "yyyy-mm-dd"), the default dateStringFormat *)

RECURSIVE Pad(_, _)
Pad(s, width) == IF Len(s) >= width THEN s ELSE Pad("0" \o s, width)

format(date) ==
    Str(Pad(ToString(getFullYear(date)), 4) \o "-" \o Pad(ToString(getMonth(date) + 1), 2)
        \o "-" \o Pad(ToString(getDate(date)), 2))

-----------------------------------------------------------------------------
(* NeatDatePicker: what a render computes *)

D(y, m, d) == [year |-> y, month |-> m, date |-> d]

\* new Date(): the session's current day
Now == D(1970, 0, 15)

\* TODAY = new Date(year, month, date) of the displayTime of the render
TODAY(dt) == NewDate(getFullYear(dt), getMonth(dt), getDate(dt))

\* useState<Output>(...): the initial selection
initialOutput(p, dt) ==
    IF p.mode = "single"
    THEN [date |-> TODAY(dt), startDate |-> Null, endDate |-> Null]
    ELSE [date |-> Null, startDate |-> Or(p.startDate, Null), endDate |-> Or(p.endDate, Null)]

\* the body of useEffect(..., [mode, initialDate])
effectOutput(p, dt) ==
    LET updatedInitalDate ==
            IF Truthy(p.initialDate)
            THEN NewDate(getFullYear(p.initialDate), getMonth(p.initialDate), getDate(p.initialDate))
            ELSE p.initialDate
    IN  IF p.mode = "single"
        THEN [date |-> Nullish(updatedInitalDate, TODAY(dt)), startDate |-> Null, endDate |-> Null]
        ELSE [date |-> Null,
              startDate |-> Nullish(Nullish(updatedInitalDate, p.startDate), TODAY(dt)),
              endDate |-> Or(p.endDate, Null)]

\* useDaysOfMonth(year, month, minTime, maxTime) once its effect has run; a
\* render whose displayTime is no Date throws before the hook is reached
daysOfMonth(p, dt, old) ==
    IF IsDate(dt)
    THEN createDateArray(getFullYear(dt), getMonth(dt), OptTime(p.minDate), OptTime(p.maxDate))
    ELSE old

\* the component is on screen: its effects have run and its last render did not throw
Rendered == phase = "mounted" /\ IsDate(displayTime)

-----------------------------------------------------------------------------
(* Key: a press on the day cell Day hands this object to onConfirmPress *)

keyPress(Day) ==
    [date |-> NewDate(Day.year, Day.month, Day.date), startDate |-> Null, endDate |-> Null]

-----------------------------------------------------------------------------
(* onConfirmPress(selectedDate) *)

\* singleOutput without the four range fields
singleOutputSparse(selectedDate) ==
    Spread(selectedDate, [dateString |-> format(selectedDate.date)])

\* single mode: the object passed to onConfirm and stored
singleOutput(selectedDate) ==
    Spread(selectedDate,
           [dateString |-> format(selectedDate.date),
            startDate |-> Null, startDateString |-> Null,
            endDate |-> Null, endDateString |-> Null])

\* range mode, first date: the object stored
firstPick(out, selectedDate) ==
    Spread(out, [startDate |-> selectedDate.date,
                 startDateString |-> format(selectedDate.date)])

\* orderRange without the swap
orderRangeUnsorted(startDate, endDate) == <<startDate, endDate>>

\* [finalStartDate, finalEndDate]; Dates compare by their instants
orderRange(startDate, endDate) ==
    IF getTime(startDate) <= getTime(endDate)
    THEN <<startDate, endDate>>
    ELSE <<endDate, startDate>>

\* range mode, second date: the object passed to onConfirm
secondPick(out, selectedDate) ==
    LET final == orderRange(out.startDate, selectedDate.date)
    IN  [startDate |-> final[1], endDate |-> final[2],
         startDateString |-> format(final[1]), endDateString |-> format(final[2]),
         date |-> Null, dateString |-> Null]

\* confirmCalls passing onConfirm the object it gives setOutput, endDate reset
confirmCallsStored(mode, out, selectedDate) ==
    IF mode = "single" THEN <<singleOutput(selectedDate)>>
    ELSE IF mode = "range" /\ Truthy(out.startDate) /\ ~Truthy(out.endDate)
         THEN <<[secondPick(out, selectedDate) EXCEPT !.endDate = Null]>>
    ELSE <<>>

\* the objects the handler passes to onConfirm, in order
confirmCalls(mode, out, selectedDate) ==
    IF mode = "single" THEN <<singleOutput(selectedDate)>>
    ELSE IF mode = "range" /\ Truthy(out.startDate) /\ ~Truthy(out.endDate)
         THEN <<secondPick(out, selectedDate)>>
    ELSE <<>>

\* confirmOutput storing the confirmed range as it is, endDate included
confirmOutputNoReset(mode, out, selectedDate) ==
    IF mode = "single" THEN singleOutput(selectedDate)
    ELSE IF mode = "range" THEN
        IF ~Truthy(out.startDate) THEN firstPick(out, selectedDate)
        ELSE IF ~Truthy(out.endDate) THEN secondPick(out, selectedDate)
        ELSE out
    ELSE out

\* confirmOutput with no setOutput call at all
confirmOutputKept(mode, out, selectedDate) == out

\* the value the handler gives setOutput (the old value when it calls none)
confirmOutput(mode, out, selectedDate) ==
    IF mode = "single" THEN singleOutput(selectedDate)
    ELSE IF mode = "range" THEN
        IF ~Truthy(out.startDate) THEN firstPick(out, selectedDate)
        ELSE IF ~Truthy(out.endDate)
             THEN [secondPick(out, selectedDate) EXCEPT !.endDate = Null]
        ELSE out
    ELSE out

\* the callback onConfirmPress leaves with setTimeout
confirmTimer(mode, selectedDate) ==
    [kind |-> "confirm", mode |-> mode, selectedDate |-> selectedDate]

\* what that callback gives setDisplayTime
confirmDisplayTime(t) ==
    IF t.mode = "single" THEN t.selectedDate.date ELSE t.selectedDate.startDate

-----------------------------------------------------------------------------
(* onCancelPress *)

\* the callback onCancelPress leaves with setTimeout; it closes over the
\* originalOutput, mode and initialDate of the render that was pressed
cancelTimer(p, orig) ==
    [kind |-> "cancel", mode |-> p.mode, initialDate |-> p.initialDate, originalOutput |-> orig]

\* cancelDisplayTime leaving the month on screen as it is
cancelDisplayTimeKept(t) == displayTime

\* what that callback gives setDisplayTime
cancelDisplayTime(t) ==
    IF t.mode = "range" /\ ~Truthy(t.originalOutput.startDate)
    THEN Or(t.initialDate, Now)
    ELSE IF t.mode = "single" THEN t.originalOutput.date
    ELSE t.originalOutput.startDate

-----------------------------------------------------------------------------
(* navigateMonth(direction) *)

\* the updater given to setDisplayTime: setMonth keeps the day of the month
\* and lets it carry into the following month
navigatedTime(prevTime, direction) ==
    NewDate(getFullYear(prevTime),
            getMonth(prevTime) + (IF direction = "next" THEN 1 ELSE -1),
            getDate(prevTime))

navTimer == [kind |-> "nav"]

-----------------------------------------------------------------------------
(* Bounds and the inputs the behaviours draw from *)

\* at most this many setTimeout callbacks are pending at once
MaxTimers == 2

\* the months on screen and the days tapped lie between December 1969 and
\* month MaxMonth (0-based) of 1970
MaxMonth == 2

\* the grid builder is also run alone for every month of 1969 .. 1969 + GridYears
GridYears == 3

InWindow(date) == MonthIndex(date) \in (1970 * 12 - 1)..(1970 * 12 + MaxMonth)

Modes == {"single", "range", "multi"}

InitialDates == {Undefined, D(1970, 0, 31)}

StartDates == {Undefined, D(1970, 1, 20)}

EndDates == {Undefined, D(1970, 1, 10)}

MinDates == {Undefined, D(1970, 0, 5)}

MaxDates == {Undefined}

\* the caller's options; startDate and endDate are given to range pickers only
Props ==
    {p \in [mode : Modes, initialDate : InitialDates, startDate : StartDates,
            endDate : EndDates, minDate : MinDates, maxDate : MaxDates] :
        p.mode # "range" => (p.startDate = Undefined /\ p.endDate = Undefined)}

\* the cells a behaviour taps: the first and the last of the grid
TapIndices(arr) == {1, Len(arr)} \cap (1..Len(arr))

-----------------------------------------------------------------------------
(* The picker *)

\* the state the component's first render leaves, given the caller's options p
Constructed(p) ==
    /\ props = p
    /\ phase = "constructed"
    /\ displayTime = Nullish(props.initialDate, Now)
    /\ output = initialOutput(props, displayTime)
    /\ originalOutput = output
    /\ isNavigating = FALSE
    /\ dateArray = <<>>
    /\ timers = <<>>
    /\ emitted = <<>>
    /\ lastConfirmed = Null
    /\ navBase = 0
    /\ navReq = "none"
    /\ navIgnored = FALSE
    /\ hist = "none"

Init == \E p \in Props : Constructed(p)

\* what every step but a navigation request does to the navigation bookkeeping
NavWindowEnds == navBase' = 0 /\ navReq' = "none" /\ navIgnored' = FALSE

\* the effects of the first render: the hook fills dateArray, the picker
\* seeds output and originalOutput
Mount ==
    /\ phase = "constructed"
    /\ phase' = "mounted"
    /\ dateArray' = daysOfMonth(props, displayTime, dateArray)
    /\ output' = effectOutput(props, displayTime)
    /\ originalOutput' = effectOutput(props, displayTime)
    /\ emitted' = <<>>
    /\ hist' = "none"
    /\ NavWindowEnds
    /\ UNCHANGED <<props, displayTime, isNavigating, timers, lastConfirmed>>

\* a press on the k-th day cell: Key calls onConfirmPress
Tap(k) ==
    /\ Rendered
    /\ Len(timers) < MaxTimers
    /\ k \in TapIndices(dateArray)
    /\ ~dateArray[k].disabled
    /\ LET selectedDate == keyPress(dateArray[k])
           calls == confirmCalls(props.mode, output, selectedDate)
       IN  /\ InWindow(selectedDate.date)
           /\ emitted' = calls
           /\ lastConfirmed' = IF calls = <<>> THEN lastConfirmed ELSE calls[Len(calls)]
           /\ output' = confirmOutput(props.mode, output, selectedDate)
           /\ timers' = Append(timers, confirmTimer(props.mode, selectedDate))
    /\ hist' = "tap"
    /\ NavWindowEnds
    /\ UNCHANGED <<props, phase, displayTime, originalOutput, isNavigating, dateArray>>

\* a press on cancel, the backdrop or the back button
CancelPress ==
    /\ Rendered
    /\ Len(timers) < MaxTimers
    /\ timers' = Append(timers, cancelTimer(props, originalOutput))
    /\ emitted' = <<>>
    /\ hist' = "cancel"
    /\ NavWindowEnds
    /\ UNCHANGED <<props, phase, displayTime, output, originalOutput, isNavigating,
                   dateArray, lastConfirmed>>

\* a press on prev or next outside the cooldown
Navigate(direction) ==
    /\ Rendered
    /\ ~isNavigating
    /\ Len(timers) < MaxTimers
    /\ InWindow(navigatedTime(displayTime, direction))
    /\ isNavigating' = TRUE
    /\ displayTime' = navigatedTime(displayTime, direction)
    /\ dateArray' = daysOfMonth(props, displayTime', dateArray)
    /\ timers' = Append(timers, navTimer)
    /\ emitted' = <<>>
    /\ hist' = "none"
    /\ navBase' = MonthIndex(displayTime)
    /\ navReq' = direction
    /\ navIgnored' = FALSE
    /\ UNCHANGED <<props, phase, output, originalOutput, lastConfirmed>>

\* a press on prev or next during the cooldown: navigateMonth returns at once
NavigateIgnored(direction) ==
    /\ Rendered
    /\ isNavigating
    /\ emitted' = <<>>
    /\ hist' = "none"
    /\ navIgnored' = (navReq # "none")
    /\ UNCHANGED <<props, phase, displayTime, output, originalOutput, isNavigating,
                   dateArray, timers, lastConfirmed, navBase, navReq>>

\* the oldest pending callback is one onConfirmPress left
FireConfirm ==
    /\ Rendered
    /\ timers # <<>>
    /\ Head(timers).kind = "confirm"
    /\ displayTime' = confirmDisplayTime(Head(timers))
    /\ dateArray' = daysOfMonth(props, displayTime', dateArray)
    /\ timers' = Tail(timers)
    /\ emitted' = <<>>
    /\ hist' = IF hist = "tap" /\ Len(timers) = 1 THEN "tapDone" ELSE "none"
    /\ NavWindowEnds
    /\ UNCHANGED <<props, phase, output, originalOutput, isNavigating, lastConfirmed>>

\* FireCancel with the restore of output superseded by any event that left a
\* younger callback
FireCancelSuperseded ==
    /\ Rendered
    /\ timers # <<>>
    /\ Head(timers).kind = "cancel"
    /\ output' = IF Len(timers) > 1 THEN output ELSE Head(timers).originalOutput
    /\ displayTime' = cancelDisplayTime(Head(timers))
    /\ dateArray' = daysOfMonth(props, displayTime', dateArray)
    /\ timers' = Tail(timers)
    /\ emitted' = <<>>
    /\ hist' = IF hist = "cancel" /\ Len(timers) = 1 THEN "cancelDone" ELSE "none"
    /\ NavWindowEnds
    /\ UNCHANGED <<props, phase, originalOutput, isNavigating, lastConfirmed>>

\* the oldest pending callback is one onCancelPress left
FireCancel ==
    /\ Rendered
    /\ timers # <<>>
    /\ Head(timers).kind = "cancel"
    /\ output' = Head(timers).originalOutput
    /\ displayTime' = cancelDisplayTime(Head(timers))
    /\ dateArray' = daysOfMonth(props, displayTime', dateArray)
    /\ timers' = Tail(timers)
    /\ emitted' = <<>>
    /\ hist' = IF hist = "cancel" /\ Len(timers) = 1 THEN "cancelDone" ELSE "none"
    /\ NavWindowEnds
    /\ UNCHANGED <<props, phase, originalOutput, isNavigating, lastConfirmed>>

\* the oldest pending callback is the one that ends the cooldown
FireNav ==
    /\ Rendered
    /\ timers # <<>>
    /\ Head(timers).kind = "nav"
    /\ isNavigating' = FALSE
    /\ timers' = Tail(timers)
    /\ emitted' = <<>>
    /\ hist' = "none"
    /\ NavWindowEnds
    /\ UNCHANGED <<props, phase, displayTime, output, originalOutput, dateArray, lastConfirmed>>

\* a callback fires after a render threw and the component was unmounted:
\* its state updates are dropped
FireUnmounted ==
    /\ phase = "mounted"
    /\ ~IsDate(displayTime)
    /\ timers # <<>>
    /\ timers' = Tail(timers)
    /\ emitted' = <<>>
    /\ hist' = "none"
    /\ NavWindowEnds
    /\ UNCHANGED <<props, phase, displayTime, output, originalOutput, isNavigating,
                   dateArray, lastConfirmed>>

Next ==
    \/ Mount
    \/ \E k \in 1..42 : Tap(k)
    \/ CancelPress
    \/ \E direction \in {"prev", "next"} : Navigate(direction)
    \/ \E direction \in {"prev", "next"} : NavigateIgnored(direction)
    \/ FireConfirm
    \/ FireCancel
    \/ FireNav
    \/ FireUnmounted

Spec == Init /\ [][Next]_vars

\* the event loop takes the oldest pending setTimeout callback off its queue
\* to run it: the steps that do so are those of FireConfirm, FireCancel,
\* FireNav and FireUnmounted
TimerRuns == phase = "mounted" /\ timers # <<>> /\ timers' = Tail(timers)

\* the picker under an event loop that keeps running the pending callbacks
FairSpec == Spec /\ WF_timers(TimerRuns)

-----------------------------------------------------------------------------
(* The grid builder over every month of the years 1969 .. 1969 + GridYears:   *)
(* a single-mode picker is opened on the first day of the month, under every  *)
(* pair of bounds, and its first effects run                                  *)

GridBounds == {Undefined, D(1970, 0, 1), D(1970, 1, 1), D(1971, 5, 15)}

GridProps ==
    {[mode |-> "single", initialDate |-> D(y, m, 1), startDate |-> Undefined,
      endDate |-> Undefined, minDate |-> lo, maxDate |-> hi] :
        y \in 1969..(1969 + GridYears), m \in 0..11, lo \in GridBounds, hi \in GridBounds}

GridInit == \E p \in GridProps : Constructed(p)

GridNext == Mount

GridSpec == GridInit /\ [][GridNext]_vars

-----------------------------------------------------------------------------
(* Claims *)

\* the instant of midnight of a cell's normalised year/month/date
CellTime(cell) == getTime(NewDate(cell.year, cell.month, cell.date))

\* C1, as stated: for every (year, month) the array the grid builder returns
\* has exactly 42 day cells.
C1_Always42Cells == phase = "mounted" => Len(dateArray) = 42

\* C1, amended: the array the grid builder returns holds the previous-month
\* prefix and the month's days filled up to the next multiple of 7, that is 28,
\* 35 or 42 day cells; only the layout chunkIntoFixedWeeks makes of it has 42
\* slots, six rows of seven, which hold the array's cells in order followed by
\* null placeholders that are no day cells.
C1_FixedLayout ==
    (phase = "mounted" /\ IsDate(displayTime)) =>
        LET y == getFullYear(displayTime)
            m == getMonth(displayTime)
            firstDay == getDay(D(y, m, 1))
            weeks == chunkIntoFixedWeeks(dateArray)
            slots == (1..6) \X (1..7)
        IN  /\ Len(dateArray) = 7 * ((firstDay + MonthLength(y, m) + 6) \div 7)
            /\ Len(dateArray) \in {28, 35, 42}
            /\ Len(weeks) = 6
            /\ \A i \in 1..6 : Len(weeks[i]) = 7
            /\ Cardinality({sl \in slots : weeks[sl[1]][sl[2]] # Null}) = Len(dateArray)
            /\ \A sl \in slots :
                LET n == (sl[1] - 1) * 7 + sl[2]
                IN  weeks[sl[1]][sl[2]] = IF n <= Len(dateArray) THEN dateArray[n] ELSE Null

\* C1 witness: a month whose prefix and days fill four weeks only (28 cells),
\* so that the layout ends in 14 placeholders.
C1_FourWeekMonth ==
    /\ phase = "mounted"
    /\ Len(dateArray) = 28
    /\ chunkIntoFixedWeeks(dateArray)[5][1] = Null

\* C2: each cell of the built grid is disabled if and only if the instant of
\* its date is below a supplied minInstant or above a supplied maxInstant,
\* whatever the value of the supplied instant, 0 included.
C2_DisabledIffOutsideBounds ==
    phase = "mounted" =>
        \A k \in DOMAIN dateArray :
            dateArray[k].disabled <=>
                \/ props.minDate # Undefined /\ CellTime(dateArray[k]) < getTime(props.minDate)
                \/ props.maxDate # Undefined /\ CellTime(dateArray[k]) > getTime(props.maxDate)

\* C3: in range mode every object passed to onConfirm has startDate <= endDate.
C3_ConfirmedRangeOrdered ==
    props.mode = "range" =>
        \A i \in DOMAIN emitted :
            /\ IsDate(emitted[i].startDate)
            /\ IsDate(emitted[i].endDate)
            /\ getTime(emitted[i].startDate) <= getTime(emitted[i].endDate)

\* C3 witness: the completing tap was on a day before the start date held, and
\* the two were swapped.
C3_SwappedRange ==
    /\ props.mode = "range"
    /\ emitted # <<>>
    /\ emitted[1].startDate = timers[Len(timers)].selectedDate.date
    /\ getTime(emitted[1].startDate) < getTime(emitted[1].endDate)

\* a range picker just mounted, the caller having supplied no startDate,
\* endDate or initialDate
FreshRange ==
    /\ props.mode = "range"
    /\ props.startDate = Undefined /\ props.endDate = Undefined /\ props.initialDate = Undefined
    /\ phase = "mounted"
    /\ displayTime = Now
    /\ output = effectOutput(props, displayTime)
    /\ originalOutput = output
    /\ timers = <<>>
    /\ lastConfirmed = Null
    /\ ~isNavigating

\* C4: in a freshly mounted range picker without supplied dates the first tap
\* invokes no onConfirm and only records the tapped date as startDate.
C4_FirstTapOnlyRecords ==
    [][(FreshRange /\ hist' = "tap") =>
          (emitted' = <<>> /\ output'.startDate = timers'[1].selectedDate.date)]_vars

\* C5: after a confirm delivered v to onConfirm, a cancel whose deferred
\* restore has fired with no other event in between leaves output equal to v.
C5_CancelRestoresLastConfirmed ==
    (hist = "cancelDone" /\ lastConfirmed # Null) => output = lastConfirmed

\* the baseline's primary date, or the caller's initial date (today when
\* none) when a range baseline has no startDate
BaselineDate ==
    IF props.mode = "single" THEN originalOutput.date
    ELSE IF Truthy(originalOutput.startDate) THEN originalOutput.startDate
    ELSE Or(props.initialDate, Now)

\* C6: after a cancel press and the firing of its deferred restore with no
\* other event in between, output is the baseline originalOutput and the month
\* on screen is the month of the baseline's primary date.
C6_CancelRestoresBaseline ==
    (hist = "cancelDone" /\ props.mode \in {"single", "range"}) =>
        /\ output = originalOutput
        /\ IsDate(displayTime)
        /\ MonthIndex(displayTime) = MonthIndex(BaselineDate)

\* C6 witness: a restore has just fired in a picker that had confirmed a
\* selection other than its baseline.
C6_RestoredAfterSelection ==
    /\ hist = "cancelDone"
    /\ lastConfirmed # Null
    /\ lastConfirmed.date # originalOutput.date

\* C7: in range mode onConfirm is never passed an object whose startDate or
\* endDate is absent.
C7_NoPartialRange ==
    props.mode = "range" =>
        \A i \in DOMAIN emitted :
            Truthy(Get(emitted[i], "startDate")) /\ Truthy(Get(emitted[i], "endDate"))

\* C7 witness: a range has been confirmed while the selection stored after it
\* is partial again (startDate set, endDate absent).
C7_ConfirmedThenPartial ==
    /\ props.mode = "range"
    /\ emitted # <<>>
    /\ Truthy(output.startDate)
    /\ output.endDate = Null

OutputFields ==
    {"date", "dateString", "startDate", "startDateString", "endDate", "endDateString"}

IsStr(v) == DOMAIN v = {"str"}

\* C8: every object passed to onConfirm has all six fields; in single mode
\* date and dateString are set and the four range fields are null, in range
\* mode the four range fields are set and date and dateString are null.
C8_SixFields ==
    \A i \in DOMAIN emitted :
        LET o == emitted[i]
        IN  /\ DOMAIN o = OutputFields
            /\ props.mode = "single" =>
                /\ IsDate(o.date) /\ IsStr(o.dateString)
                /\ o.startDate = Null /\ o.startDateString = Null
                /\ o.endDate = Null /\ o.endDateString = Null
            /\ props.mode = "range" =>
                /\ IsDate(o.startDate) /\ IsStr(o.startDateString)
                /\ IsDate(o.endDate) /\ IsStr(o.endDateString)
                /\ o.date = Null /\ o.dateString = Null

\* C8 witness: a tap in single mode has just passed an object to onConfirm.
C8_SingleConfirmed ==
    /\ props.mode = "single"
    /\ emitted # <<>>
    /\ hist = "tap"

\* C9: an accepted navigation step moves the month on screen by exactly one
\* month in the requested direction, whatever the day of the month shown.
C9_StepIsOneMonth ==
    (isNavigating /\ navReq # "none" /\ ~navIgnored) =>
        MonthIndex(displayTime) = navBase + (IF navReq = "next" THEN 1 ELSE -1)

\* C10: the step requests issued within one cooldown window, the ignored ones
\* included, change the month on screen by exactly one month in total.
C10_OneMonthPerWindow ==
    (isNavigating /\ navReq # "none" /\ navIgnored) =>
        MonthIndex(displayTime) - navBase \in {1, -1}

\* the date of the press that left the youngest pending callback
TappedDate == timers[Len(timers)].selectedDate.date

\* C11: in single mode a tap on day d at once stores d as output.date and
\* passes onConfirm exactly one object, whose date is d, whatever was selected
\* before.
C11_SingleTapConfirms ==
    (props.mode = "single" /\ hist = "tap") =>
        /\ output.date = TappedDate
        /\ Len(emitted) = 1
        /\ emitted[1].date = TappedDate

\* C11 witness: a second tap in single mode, on another day than the first,
\* has just been handled.
C11_SecondTapOtherDay ==
    /\ props.mode = "single"
    /\ hist = "tap"
    /\ Len(timers) = 2
    /\ timers[1].kind = "confirm"
    /\ timers[1].selectedDate.date # TappedDate
    /\ output.date = TappedDate

\* C12: in range mode the mount effect leaves output and the baseline
\* originalOutput with startDate the caller's startDate option and endDate the
\* caller's endDate option, each absent when the caller gave none, with or
\* without an initialDate.
C12_MountSeedsFromOptions ==
    [][(props.mode = "range" /\ phase = "constructed" /\ phase' = "mounted") =>
          /\ output'.startDate = Or(props.startDate, Null)
          /\ output'.endDate = Or(props.endDate, Null)
          /\ originalOutput'.startDate = Or(props.startDate, Null)
          /\ originalOutput'.endDate = Or(props.endDate, Null)]_vars

\* a cancel has just been pressed in a range picker opened without startDate
\* and endDate, after one tap that left startDate set and endDate absent
CancelAfterPartial ==
    /\ props.mode = "range"
    /\ props.startDate = Undefined /\ props.endDate = Undefined
    /\ hist = "cancel"
    /\ Len(timers) = 2
    /\ timers[1].kind = "confirm"
    /\ Truthy(output.startDate) /\ ~Truthy(output.endDate)

\* C13: in a range picker opened without startDate and endDate, a cancel
\* after one tap (startDate set, endDate absent) restores an output whose
\* startDate and endDate are both absent: that is the value its deferred
\* restore gives setOutput.
C13_CancelRestoresEmptyRange ==
    CancelAfterPartial =>
        /\ ~Truthy(timers[2].originalOutput.startDate)
        /\ ~Truthy(timers[2].originalOutput.endDate)

\* C14: when both bounds are supplied and minInstant > maxInstant, every cell
\* of the grid built for any month is disabled, also when one of the two
\* instants is 0.
C14_CrossedBoundsDisableAll ==
    (/\ phase = "mounted"
     /\ props.minDate # Undefined /\ props.maxDate # Undefined
     /\ getTime(props.minDate) > getTime(props.maxDate)) =>
        \A k \in DOMAIN dateArray : dateArray[k].disabled

\* the dates an output holds as selected
Selection(out) == {out[f] : f \in {g \in DOMAIN out : IsDate(out[g])}}

\* C15: in multi mode a tap toggles the tapped date in the selection (adds it
\* when it is not selected, removes it when it is) and passes nothing to
\* onConfirm.
C15_MultiTapToggles ==
    [][(props.mode = "multi" /\ hist' = "tap") =>
          /\ emitted' = <<>>
          /\ (TappedDate' \in Selection(output')) <=> (TappedDate' \notin Selection(output))]_vars

\* C16: in range mode, in every state of the picker from its first render on,
\* an output that has both startDate and endDate has startDate <= endDate.
C16_StoredRangeOrdered ==
    (props.mode = "range" /\ Truthy(output.startDate) /\ Truthy(output.endDate)) =>
        getTime(output.startDate) <= getTime(output.endDate)

\* C17: in range mode, right after a tap that completed a range and passed it
\* to onConfirm, output has endDate absent and startDate the start of that
\* range; a tap that follows at once completes and confirms the range of that
\* startDate and its own date.
C17_ConfirmKeepsStart ==
    [][/\ (props.mode = "range" /\ hist' = "tap" /\ emitted' # <<>>) =>
            /\ output'.endDate = Null
            /\ output'.startDate = emitted'[1].startDate
       /\ (props.mode = "range" /\ hist = "tap" /\ emitted # <<>> /\ hist' = "tap") =>
            /\ Len(emitted') = 1
            /\ <<emitted'[1].startDate, emitted'[1].endDate>>
                 = orderRange(output.startDate, TappedDate')]_vars

\* C17 witness: two taps in a row have each confirmed a range, the second
\* from the startDate the first left.
C17_TwoRangesInARow ==
    /\ props.mode = "range"
    /\ hist = "tap"
    /\ Len(timers) = 2
    /\ timers[1].kind = "confirm"
    /\ emitted # <<>>
    /\ lastConfirmed = emitted[1]
    /\ timers[1].selectedDate.date \in {emitted[1].startDate, emitted[1].endDate}
    /\ props.endDate = Undefined

\* C18: in range mode a tap made while output has both startDate and endDate
\* starts a new range: output.startDate becomes the tapped date.
C18_ThirdTapRestarts ==
    [][(/\ props.mode = "range"
        /\ Truthy(output.startDate) /\ Truthy(output.endDate)
        /\ hist' = "tap") =>
          output'.startDate = TappedDate']_vars

C21_PrefixIsPreviousMonth ==
    (phase = "mounted" /\ IsDate(displayTime)) =>
        LET y == getFullYear(displayTime)
            m == getMonth(displayTime)
            firstWeekday == getDay(D(y, m, 1))
            prevLast == NewDate(y, m, 0)
        IN  /\ Len(dateArray) > firstWeekday
            /\ [dateArray[firstWeekday + 1] EXCEPT !.disabled = FALSE] = DayCell(y, m, 1, TRUE)
            /\ \A k \in 1..firstWeekday :
                  LET cell == dateArray[k]
                      day == NewDate(cell.year, cell.month, cell.date)
                  IN  /\ ~cell.isCurrentMonth
                      /\ cell.year = y /\ cell.month = m - 1
                      /\ MonthIndex(day) = MonthIndex(D(y, m, 1)) - 1
                      /\ cell.date = getDate(prevLast) - (firstWeekday - k)
                      /\ getTime(day) = getTime(prevLast) - (firstWeekday - k)

\* C21 witness: the grid of a January that does not start on the first
\* weekday, so that its prefix lies in December of the year before.
C21_JanuaryWithPrefix ==
    /\ phase = "mounted"
    /\ getMonth(displayTime) = 0
    /\ getDay(D(getFullYear(displayTime), 0, 1)) >= 2
    /\ dateArray[1].month = -1
    /\ getFullYear(NewDate(dateArray[1].year, dateArray[1].month, dateArray[1].date))
         = getFullYear(displayTime) - 1

CancelPending == \E i \in DOMAIN timers : timers[i].kind = "cancel"

\* C23: deferred work is never cancelled or superseded. A pending callback
\* leaves the queue only by firing; a cancel press captures the baseline of its
\* render; a tap made while a cancel's restore is pending is handled as any
\* other (in single mode it passes the tapped date to onConfirm) and leaves the
\* restore pending; and the restore, when it fires on the rendered picker,
\* overwrites output with the baseline it captured.
C23_DeferredWorkNotSuperseded ==
    [][/\ \/ timers' = timers
          \/ timers # <<>> /\ timers' = Tail(timers)
          \/ Len(timers') = Len(timers) + 1 /\ SubSeq(timers', 1, Len(timers)) = timers
       /\ hist' = "cancel" => timers'[Len(timers')].originalOutput = originalOutput
       /\ (CancelPending /\ hist' = "tap") =>
            /\ SubSeq(timers', 1, Len(timers)) = timers
            /\ props.mode = "single" =>
                  (Len(emitted') = 1 /\ emitted'[1].date = TappedDate')
       /\ (Rendered /\ timers # <<>> /\ Head(timers).kind = "cancel" /\ timers' = Tail(timers)) =>
            output' = Head(timers).originalOutput]_vars

\* C23 witness: in single mode a tap came between a cancel press and its
\* restore; the restore has fired and the tap's own callback is still pending:
\* output is the baseline again and differs from the value last passed to
\* onConfirm.
C23_OutputDiffersFromConfirmed ==
    /\ props.mode = "single"
    /\ Len(timers) = 1
    /\ timers[1].kind = "confirm"
    /\ lastConfirmed # Null
    /\ lastConfirmed.date = timers[1].selectedDate.date
    /\ output = originalOutput
    /\ output # lastConfirmed
    /\ output.date # lastConfirmed.date

\* C24: whenever the grid array is not empty its cell at index 10 (counted
\* from 0) exists and is a current-month cell carrying the month and the year
\* the grid was built for, so that the header label read from daysArray[10]
\* names the month and year on screen.
C24_HeaderCellIsCurrentMonth ==
    (phase = "mounted" /\ IsDate(displayTime) /\ dateArray # <<>>) =>
        /\ Len(dateArray) >= 11
        /\ dateArray[11].isCurrentMonth
        /\ dateArray[11].month = getMonth(displayTime)
        /\ dateArray[11].year = getFullYear(displayTime)

\* C24 witness: the grid of a month that starts on the last weekday: six
\* previous-month cells come first and the cell at index 10 is day 5.
C24_LongestPrefix ==
    /\ phase = "mounted"
    /\ Len(dateArray) >= 11
    /\ ~dateArray[6].isCurrentMonth
    /\ dateArray[7].date = 1 /\ dateArray[7].isCurrentMonth
    /\ dateArray[11].date = 5

====
